---- MODULE Spec2Model ----
(***************************************************************************)
(* DrawFree: the freehand stroke engine of the Canvas component.           *)
(*                                                                         *)
(* Units.  Lengths and coordinates are integers in hundredths of a pixel   *)
(* (cpx); the brush size setting is in whole pixels, as the size slider    *)
(* gives it.  Fractions (opacity, hardness, spacing, jitter, pressure,     *)
(* Math.random) are integers in hundredths.  The sample points are chosen  *)
(* so that every distance, interpolated position and interpolated pressure *)
(* they produce is exact in these units.                                   *)
(***************************************************************************)
EXTENDS Integers, Sequences, FiniteSets, TLC

VARIABLES
    canvas,         \* [width, height] of the canvas element, in px
    surface,        \* the raster: pixel <<i, j>> -> stack of paint layers
    ctx,            \* 2d context state: [globalAlpha, fillStyle]
    settings,       \* App state `settings`, the Canvas prop
    isDrawing,      \* Canvas state isDrawing
    lastPoint,      \* lastPoint.current (Null when none)
    distRemainder,  \* distRemainder.current
    strokeEnds,     \* number of onStrokeEnd() calls made so far
    stamps,         \* history: drawStamp calls since the last pointerDown
    path,           \* history: the pointerDown point and the point of every move
                    \* handled since, each with the carry and stamp count after it
    fixed,          \* history: settings unchanged since the last pointerDown
    ev,             \* history: the last event handled
    decoding,       \* the Image objects of loadImage whose decode is in flight
    decodeErrors,   \* number of ImageDecodeError signals the host has been given
    events,         \* number of state-changing events handled so far
    limit,          \* the number of state-changing events a run may hold
    requests,       \* history: the payloads of the loadImage calls, in call order
    ai,             \* App state isLoading and the AICenter: [isLoading, activeTab,
                    \* input, inFlight], inFlight being the handlers awaiting
    live            \* the LiveAssistant: isOpen, its refs, its init() runs and the
                    \* playback schedule of the audio context

vars == << canvas, surface, ctx, settings, isDrawing, lastPoint, distRemainder,
           strokeEnds, stamps, path, fixed, ev, decoding, decodeErrors, events, limit,
           requests, ai, live >>

\* The variables of the AICenter and the LiveAssistant, which no handler of the
\* Canvas or of the tool bar touches.
assistants == << ai, live >>

-----------------------------------------------------------------------------
(* Bounds of the model *)

MaxEvents == 3

CanvasWidth == 4

CanvasHeight == 5

WideWidth == 101

WideHeight == 1

RectLeft == 800

RectTop == 200

-----------------------------------------------------------------------------
(* Numbers *)

\* The result of 0/0 and of everything computed from it.
NaN == 0 - 1000000000

Max(a, b) == IF a >= b THEN a ELSE b

Min(a, b) == IF a <= b THEN a ELSE b

Abs(a) == IF a >= 0 THEN a ELSE 0 - a

RECURSIVE SqrtIter(_, _, _)
SqrtIter(n, lo, hi) ==
    IF lo >= hi THEN lo
    ELSE LET mid == (lo + hi + 1) \div 2
         IN  IF mid * mid <= n THEN SqrtIter(n, mid, hi)
             ELSE SqrtIter(n, lo, mid - 1)

\* Math.sqrt on the grid: the largest integer whose square is at most n.
Sqrt(n) == SqrtIter(n, 0, Min(n, 46340))

-----------------------------------------------------------------------------
(* Types: ToolType, DrawingSettings, Point *)

Background == "#F5F5DC"

Ink == "#1c1917"

Red == "#ff0000"

DefaultSettings ==
    [ color |-> Ink, size |-> 10, opacity |-> 100, hardness |-> 100,
      spacing |-> 10, jitter |-> 0, tool |-> "PENCIL", isStylus |-> FALSE ]

\* The values the model lets the toolbar, the colour picker and the option
\* sliders give a setting during a run.
SettingValues ==
    [ tool    |-> {"PENCIL", "PIXEL", "ERASER"},
      color   |-> {Ink, Red},
      opacity |-> {50, 100},
      spacing |-> {10, 20} ]

Null == [null |-> TRUE]

\* One raw pointer event, at (x, y) cpx from the canvas origin.
Sample(x, y, p) ==
    [ clientX |-> RectLeft + x, clientY |-> RectTop + y, pressure |-> p, tiltX |-> 0 ]

\* The pointer events of the model.  Every two of the first three points are a
\* multiple of half a pixel apart (3-4-5 triangles on one line); the fourth is the
\* far end of a 100 px horizontal stroke and lies on wide canvases only.
Samples ==
    { Sample(0, 0, 0), Sample(150, 200, 20), Sample(300, 400, 90),
      Sample(10000, 0, 0) }

\* The base64 payloads handed to loadImage: two PNG images, each of one opaque
\* colour, and one that is no image.
Payloads == { "imageA", "imageB", "malformed" }

Decodes(base64) == base64 # "malformed"

\* The colour of every pixel of the decoded image.
ImageColor(base64) == base64

\* The values Math.random() takes in the model, in hundredths.
RandomValues == << 0, 50, 99 >>

\* Math.random() is an unspecified generator: a stream <<a, b>> gives, as its
\* k-th result (k from 1), the value number (a + b*k) mod 3.
RandomStreams == { <<0, 0>>, <<0, 1>> }

Random(rs, k) == RandomValues[((rs[1] + rs[2] * k) % 3) + 1]

-----------------------------------------------------------------------------
(* Canvas: construction *)

Pixels(cv) == (0 .. cv.width - 1) \X (0 .. cv.height - 1)

Opaque(color) == << [c |-> color, a |-> 100] >>

\* The mount effect: size the canvas, fill it with the background.
InitialSurface(cv) == [p \in Pixels(cv) |-> Opaque(Background)]

InitialCtx == [ globalAlpha |-> 100,
                fillStyle |-> [kind |-> "color", color |-> Background, stop |-> 100] ]

-----------------------------------------------------------------------------
(* The 2d context: compositing one source colour over a pixel *)

\* source-over of `color` with alpha a (in hundredths) on one pixel.  A pixel is
\* the stack of layers painted since the last opaque one.
Paint(pixel, color, a) ==
    IF a <= 0 THEN pixel
    ELSE IF a >= 100 THEN Opaque(color)
    ELSE IF pixel = Opaque(color) THEN pixel
    ELSE Append(pixel, [c |-> color, a |-> a])

CentreX(p) == 100 * p[1] + 50

CentreY(p) == 100 * p[2] + 50

\* Four times the squared distance of pixel p's centre from (x, y).
Dist4(p, x, y) ==
    (2 * (CentreX(p) - x)) * (2 * (CentreX(p) - x))
    + (2 * (CentreY(p) - y)) * (2 * (CentreY(p) - y))

\* A gradient that fades from the centre of the disc, whatever the hardness.
GradientAlphaFromCentre(d2, d, hardness) ==
    IF d2 >= d THEN 0 ELSE (100 * (d - d2)) \div d

\* Alpha, in hundredths, of the radial gradient with stops (hardness, opaque)
\* and (1, transparent) at twice-distance d2 from the centre of a disc of
\* diameter d.
GradientAlpha(d2, d, hardness) ==
    IF d2 * 100 <= hardness * d THEN 100
    ELSE IF d2 >= d THEN 0
    ELSE (100 * 100 * (d - d2)) \div (d * (100 - hardness))

\* What one mark does to pixel p.
\*   "pixel": fillRect(x, y, d, d) with a plain fillStyle;
\*   "disc":  arc(x, y, d/2, 0, 2*PI) and fill(), the fillStyle being the radial
\*            gradient when hardness < 100 and the plain colour otherwise;
\*   "none":  an arc() with a NaN argument adds nothing to the path, and a
\*            stamp that threw painted nothing.
PaintMark(pixel, p, m) ==
    IF m.kind = "pixel"
    THEN IF /\ m.x <= CentreX(p) /\ CentreX(p) < m.x + m.d
            /\ m.y <= CentreY(p) /\ CentreY(p) < m.y + m.d
         THEN Paint(pixel, m.color, m.alpha)
         ELSE pixel
    ELSE IF m.kind = "disc"
    THEN IF Dist4(p, m.x, m.y) <= m.d * m.d
         THEN IF m.hardness < 100
              THEN Paint(pixel, m.color,
                         (m.alpha * GradientAlpha(Sqrt(Dist4(p, m.x, m.y)), m.d, m.hardness))
                             \div 100)
              ELSE Paint(pixel, m.color, m.alpha)
         ELSE pixel
    ELSE pixel

\* The marks made[i..j] painted on pixel p, in order: the first half, then the
\* second half on the pixel the first half left.
RECURSIVE PaintFrom(_, _, _, _, _)
PaintFrom(pixel, p, made, i, j) ==
    IF i > j THEN pixel
    ELSE IF i = j THEN PaintMark(pixel, p, made[i].mark)
    ELSE CHOOSE after \in { PaintFrom(half, p, made, (i + j) \div 2 + 1, j) :
                                half \in {PaintFrom(pixel, p, made, i, (i + j) \div 2)} } : TRUE

PaintAll(surf, made) == [p \in DOMAIN surf |-> PaintFrom(surf[p], p, made, 1, Len(made))]

-----------------------------------------------------------------------------
(* Canvas: getCoordinates, drawStamp, interpolate *)

\* The pointer is over the canvas element (pointer events reach the handlers
\* only then).
InCanvas(cv, e) ==
    /\ 0 <= e.clientX - RectLeft /\ e.clientX - RectLeft < 100 * cv.width
    /\ 0 <= e.clientY - RectTop /\ e.clientY - RectTop < 100 * cv.height

\* getCoordinates handing on e.pressure as reported.
GetCoordinatesRawPressure(e) ==
    [ x |-> e.clientX - RectLeft,
      y |-> e.clientY - RectTop,
      pressure |-> e.pressure,
      tilt |-> e.tiltX ]

GetCoordinates(e) ==
    [ x |-> e.clientX - RectLeft,
      y |-> e.clientY - RectTop,
      pressure |-> IF e.pressure # 0 THEN e.pressure ELSE 50,
      tilt |-> e.tiltX ]

\* `p || 0.5`
OrHalf(p) == IF p = 0 \/ p = NaN THEN 50 ELSE p

PixelSize(s) == Max(1, s.size \div 2)

\* Math.round in place of Math.floor.
SnapRounding(v, pixelSize) ==
    IF v = NaN THEN NaN
    ELSE ((v + 50 * pixelSize) \div (100 * pixelSize)) * (100 * pixelSize)

\* Math.floor(v / pixelSize) * pixelSize, pixelSize in px, v in cpx.
Snap(v, pixelSize) ==
    IF v = NaN THEN NaN ELSE (v \div (100 * pixelSize)) * (100 * pixelSize)

\* (Math.random() - 0.5) * jitter * size * 2, size in cpx.
JitterOffset(r, jitter, size) == ((r - 50) * jitter * size * 2) \div 10000

AddOffset(v, j) == IF v = NaN THEN NaN ELSE v + j

\* The colour of the settings for every tool, the eraser too.
BrushColorOfSettings(s) == s.color

\* isEraser ? '#F5F5DC' : settings.color
BrushColor(s) == IF s.tool = "ERASER" THEN Background ELSE s.color

\* The pressure of the point taken whether or not the input is a stylus.
PressureOfAnyPointer(pt, s) == OrHalf(pt.pressure)

\* settings.isStylus ? (pt.pressure || 0.5) : 1
Pressure(pt, s) == IF s.isStylus THEN OrHalf(pt.pressure) ELSE 100

\* The geometry drawStamp(pt) computes under settings s, and what it sets on
\* the context; k1 is the number of Math.random() results the stream rs has
\* given so far.  kind "none" is a stamp that painted nothing: arc() ignores a
\* NaN centre, and createRadialGradient throws a TypeError on one.
StampMark(pt, s, rs, k1) ==
    LET baseSize == s.size
        pressure == Pressure(pt, s)
        size     == baseSize * pressure
    IN
    IF s.tool = "PIXEL"
    THEN LET pixelSize == PixelSize(s)
             x     == Snap(pt.x, pixelSize)
             y     == Snap(pt.y, pixelSize)
             color == IF s.tool = "ERASER" THEN Background ELSE s.color
         IN  [ kind |-> IF x = NaN \/ y = NaN THEN "none" ELSE "pixel",
               x |-> x, y |-> y, d |-> 100 * pixelSize,
               alpha |-> 100, hardness |-> 100, color |-> color,
               gradient |-> FALSE, draws |-> k1, threw |-> FALSE ]
    ELSE LET isEraser == s.tool = "ERASER"
             jx    == IF s.jitter > 0 THEN JitterOffset(Random(rs, k1 + 1), s.jitter, size) ELSE 0
             jy    == IF s.jitter > 0 THEN JitterOffset(Random(rs, k1 + 2), s.jitter, size) ELSE 0
             drawX == AddOffset(pt.x, jx)
             drawY == AddOffset(pt.y, jy)
         IN  [ kind |-> IF drawX = NaN \/ drawY = NaN THEN "none" ELSE "disc",
               x |-> drawX, y |-> drawY, d |-> size,
               alpha |-> s.opacity, hardness |-> s.hardness,
               color |-> BrushColor(s),
               gradient |-> s.hardness < 100,
               draws |-> IF s.jitter > 0 THEN k1 + 2 ELSE k1,
               threw |-> s.hardness < 100 /\ (drawX = NaN \/ drawY = NaN) ]

\* ctx.globalAlpha and ctx.fillStyle after the stamp (a stamp that threw did
\* so after setting globalAlpha and before setting fillStyle).
CtxAfter(c, m) ==
    [ globalAlpha |-> m.alpha,
      fillStyle |-> IF m.threw THEN c.fillStyle
                    ELSE [ kind |-> IF m.gradient THEN "gradient" ELSE "color",
                           color |-> m.color, stop |-> m.hardness ] ]

\* drawStamp whose pixel branch does not set ctx.globalAlpha: the cell is
\* filled under the alpha the context has.
DrawStampLeaking(g, pt, s, rs, k1) ==
    LET made == StampMark(pt, s, rs, k1)
        m == IF made.kind = "pixel" THEN [made EXCEPT !.alpha = g.ctx.globalAlpha] ELSE made
    IN  [ surface |-> [p \in DOMAIN g.surface |-> PaintMark(g.surface[p], p, m)],
          ctx     |-> CtxAfter(g.ctx, m),
          mark    |-> m,
          threw   |-> m.threw ]

\* drawStamp(pt) on the context g = [surface, ctx].
DrawStamp(g, pt, s, rs, k1) ==
    LET m == StampMark(pt, s, rs, k1)
    IN  [ surface |-> [p \in DOMAIN g.surface |-> PaintMark(g.surface[p], p, m)],
          ctx     |-> CtxAfter(g.ctx, m),
          mark    |-> m,
          threw   |-> m.threw ]

\* Math.sqrt(dx * dx + dy * dy)
Distance(start, end) ==
    Sqrt((end.x - start.x) * (end.x - start.x) + (end.y - start.y) * (end.y - start.y))

\* The sample points of the model are those whose distance is exact.
ExactDistance(start, end) ==
    \E dist \in { Distance(start, end) } :
        dist * dist
            = (end.x - start.x) * (end.x - start.x) + (end.y - start.y) * (end.y - start.y)

\* The step floored at 0.01 px.
StepFlooredLow(s) == Max(1, s.size * s.spacing)

\* Math.max(0.5, settings.size * settings.spacing)
Step(s) == Max(50, s.size * s.spacing)

\* start + d * t for t = currentDist / dist; 0/0 is NaN.
Lerp(a, b, currentDist, dist) ==
    IF dist = 0 THEN NaN ELSE a + ((b - a) * currentDist) \div dist

\* The point the loop body of interpolate computes at currentDist.
PointAt(start, end, dist, currentDist) ==
    [ x |-> Lerp(start.x, end.x, currentDist, dist),
      y |-> Lerp(start.y, end.y, currentDist, dist),
      pressure |-> Lerp(OrHalf(start.pressure), OrHalf(end.pressure), currentDist, dist) ]

\* The loop of interpolate: `while (currentDist <= dist)` runs n times, at
\* currentDist, currentDist + step, ...; the points handed to drawStamp, in
\* order, and the value of currentDist when the loop ends.
Walk(start, end, dist, step, currentDist) ==
    LET n == IF currentDist <= dist THEN (dist - currentDist) \div step + 1 ELSE 0
    IN  [ pts |-> [k \in 1..n |-> PointAt(start, end, dist, currentDist + (k - 1) * step)],
          currentDist |-> currentDist + n * step ]

\* drawStamp on pts in turn, until one throws: the stamps made.  Each stamp
\* takes as many Math.random() results as the first.
StampsFrom(pts, s, rs, k1) ==
    LET each == IF pts = << >> THEN 0 ELSE StampMark(pts[1], s, rs, k1).draws - k1
        all  == [k \in 1..Len(pts) |->
                    [pt |-> pts[k], mark |-> StampMark(pts[k], s, rs, k1 + (k - 1) * each)]]
        thrown == {k \in 1..Len(pts) : all[k].mark.threw}
    IN  IF thrown = {} THEN all
        ELSE SubSeq(all, 1, CHOOSE k \in thrown : \A j \in thrown : k <= j)

\* The context after the stamps `made`.
CtxAfterAll(c, made) ==
    IF made = << >> THEN c
    ELSE CtxAfter(IF Len(made) > 1 THEN CtxAfter(c, made[Len(made) - 1].mark) ELSE c,
                  made[Len(made)].mark)

\* interpolate with `let currentDist = 0`: the carry is not taken up.
InterpolateFromZero(g, start, end, s, remainder, rs) ==
    LET dist == Distance(start, end)
        walk == Walk(start, end, dist, Step(s), 0)
        made == StampsFrom(walk.pts, s, rs, 0)
    IN  [ surface   |-> PaintAll(g.surface, made),
          ctx       |-> CtxAfterAll(g.ctx, made),
          made      |-> made,
          threw     |-> FALSE,
          remainder |-> walk.currentDist - dist ]

\* interpolate(start, end) with distRemainder.current = remainder: the context
\* after the stamps, the stamps, and the new distRemainder.current (unchanged
\* when a stamp threw before the assignment).
Interpolate(g, start, end, s, remainder, rs) ==
    LET dist == Distance(start, end)
        step == Step(s)
        walk == Walk(start, end, dist, step, remainder)
        made == StampsFrom(walk.pts, s, rs, 0)
        threw == made # << >> /\ made[Len(made)].mark.threw
    IN  [ surface   |-> PaintAll(g.surface, made),
          ctx       |-> CtxAfterAll(g.ctx, made),
          made      |-> made,
          threw     |-> threw,
          remainder |-> IF threw THEN remainder ELSE walk.currentDist - dist ]

-----------------------------------------------------------------------------
(* The state after construction *)

\* Settings the App reaches from DefaultSettings through updateSetting before
\* the first pointer event.
Presets ==
    { DefaultSettings,
      [DefaultSettings EXCEPT !.size = 4],
      [DefaultSettings EXCEPT !.tool = "PIXEL", !.size = 4, !.opacity = 50, !.color = Red],
      [DefaultSettings EXCEPT !.hardness = 50, !.opacity = 50],
      [DefaultSettings EXCEPT !.jitter = 50],
      [DefaultSettings EXCEPT !.tool = "ERASER", !.spacing = 20] }

NoEvent ==
    [ type |-> "none", arg |-> Null, drawing |-> FALSE, pt |-> Null, last |-> Null,
      remainder |-> 0, ends |-> 0, made |-> 0, threw |-> FALSE ]

\* The history record of an event: its type, its argument (filled in by the
\* handlers that read one), the canonical point it carried, the values of
\* isDrawing, lastPoint, distRemainder and strokeEnds it found, the number of
\* drawStamp calls it made and whether one of them threw.
Event(type, pt, made, threw) ==
    [ type |-> type, arg |-> Null, drawing |-> isDrawing, pt |-> pt,
      last |-> lastPoint, remainder |-> distRemainder, ends |-> strokeEnds,
      made |-> made, threw |-> threw ]

\* The AICenter as mounted: App's isLoading = false, tab 'chat', empty input.
AIClosed ==
    [ isLoading |-> FALSE, activeTab |-> "chat", input |-> "", inFlight |-> << >> ]

\* The LiveAssistant as mounted: isLiveOpen = false, every ref null (0),
\* nextStartTimeRef 0, no init() run yet.
LiveClosed ==
    [ isOpen |-> FALSE, status |-> "connecting", inits |-> << >>,
      audioContextRef |-> 0, streamRef |-> 0, liveSessionRef |-> 0,
      nextStartTime |-> 0, now |-> 0, scheduled |-> << >>, pending |-> << >>, chunks |-> 0 ]

Mounted(cv, s, n) ==
    /\ canvas = cv
    /\ surface = InitialSurface(cv)
    /\ ctx = InitialCtx
    /\ settings = s
    /\ isDrawing = FALSE
    /\ lastPoint = Null
    /\ distRemainder = 0
    /\ strokeEnds = 0
    /\ stamps = << >>
    /\ path = << >>
    /\ fixed = TRUE
    /\ ev = NoEvent
    /\ decoding = << >>
    /\ decodeErrors = 0
    /\ events = 0
    /\ limit = n
    /\ requests = << >>
    /\ ai = AIClosed
    /\ live = LiveClosed

Init == \E s \in Presets :
    Mounted([width |-> CanvasWidth, height |-> CanvasHeight], s, MaxEvents)

-----------------------------------------------------------------------------
(* The handlers.  React flushes the state update of a pointerdown, pointerup   *)
(* or input event before the next event is dispatched, so each handler sees    *)
(* the isDrawing and settings its predecessors set.                            *)

\* startDrawing without its drawStamp(point): the first mark is left to the
\* first move.
StartDrawingNoStamp(e, rs) ==
    /\ events < limit
    /\ isDrawing' = TRUE
    /\ lastPoint' = GetCoordinates(e)
    /\ distRemainder' = 0
    /\ stamps' = << >>
    /\ path' = << [pt |-> GetCoordinates(e), carry |-> 0, n |-> 0] >>
    /\ fixed' = TRUE
    /\ ev' = [Event("down", GetCoordinates(e), 0, FALSE) EXCEPT !.arg = e]
    /\ events' = events + 1
    /\ UNCHANGED << requests, decoding, decodeErrors, canvas, surface, ctx, settings, strokeEnds, limit >>

\* startDrawing without its distRemainder.current = 0: the stroke starts from
\* the carry the last one left.
StartDrawingKeepingCarry(e, rs) ==
    /\ events < limit
    /\ \E point \in { GetCoordinates(e) } :
       \E one \in { DrawStamp([surface |-> surface, ctx |-> ctx], point, settings, rs, 0) } :
           /\ isDrawing' = TRUE
           /\ lastPoint' = point
           /\ surface' = one.surface
           /\ ctx' = one.ctx
           /\ stamps' = << [pt |-> point, mark |-> one.mark] >>
           /\ path' = << [pt |-> point, carry |-> distRemainder, n |-> 1] >>
           /\ fixed' = TRUE
           /\ ev' = [Event("down", point, 1, FALSE) EXCEPT !.arg = e]
    /\ events' = events + 1
    /\ UNCHANGED << requests, decoding, decodeErrors, canvas, settings, distRemainder, strokeEnds, limit >>

\* onPointerDown
StartDrawing(e, rs) ==
    /\ events < limit
    /\ \E point \in { GetCoordinates(e) } :
       \E one \in { DrawStamp([surface |-> surface, ctx |-> ctx], point, settings, rs, 0) } :
           /\ isDrawing' = TRUE
           /\ lastPoint' = point
           /\ distRemainder' = 0
           /\ surface' = one.surface
           /\ ctx' = one.ctx
           /\ stamps' = << [pt |-> point, mark |-> one.mark] >>
           /\ path' = << [pt |-> point, carry |-> 0, n |-> 1] >>
           /\ fixed' = TRUE
           /\ ev' = [Event("down", point, 1, FALSE) EXCEPT !.arg = e]
    /\ events' = events + 1
    /\ UNCHANGED << requests, decoding, decodeErrors, canvas, settings, strokeEnds, limit >>

\* continueDrawing without the pixel branch.
MoveResultInterpolating(g, last, currentPoint, s, remainder, rs) ==
    Interpolate(g, last, currentPoint, s, remainder, rs)

\* The body of continueDrawing past its guard: the pixel tool stamps the
\* current point, every other tool interpolates from lastPoint.current.
MoveResult(g, last, currentPoint, s, remainder, rs) ==
    IF s.tool = "PIXEL"
    THEN LET one == DrawStamp(g, currentPoint, s, rs, 0)
         IN  [ surface |-> one.surface, ctx |-> one.ctx,
               made |-> << [pt |-> currentPoint, mark |-> one.mark] >>,
               threw |-> one.threw, remainder |-> remainder ]
    ELSE Interpolate(g, last, currentPoint, s, remainder, rs)

\* A continueDrawing that returns at once on every move (as one that reads a
\* stale isDrawing = false would).
MoveIgnoredAlways == TRUE

\* if (!isDrawing || !lastPoint.current) return;
MoveIgnored == ~isDrawing \/ lastPoint = Null

\* onPointerMove
ContinueDrawing(e, rs) ==
    IF MoveIgnored
    THEN /\ ev' = Event("move", Null, 0, FALSE)
         /\ UNCHANGED << requests, decoding, decodeErrors, canvas, surface, ctx, settings, isDrawing, lastPoint,
                         distRemainder, strokeEnds, stamps, path, fixed, events, limit >>
    ELSE /\ events < limit
         /\ \E currentPoint \in { GetCoordinates(e) } :
            \E res \in { MoveResult([surface |-> surface, ctx |-> ctx], lastPoint,
                                    currentPoint, settings, distRemainder, rs) } :
                /\ surface' = res.surface
                /\ ctx' = res.ctx
                /\ distRemainder' = res.remainder
                /\ lastPoint' = IF res.threw THEN lastPoint ELSE currentPoint
                /\ stamps' = stamps \o res.made
                /\ path' = Append(path, [ pt |-> currentPoint, carry |-> res.remainder,
                                          n |-> Len(stamps) + Len(res.made) ])
                /\ ev' = [Event("move", currentPoint, Len(res.made), res.threw)
                              EXCEPT !.arg = e]
         /\ events' = events + 1
         /\ UNCHANGED << requests, decoding, decodeErrors, canvas, settings, isDrawing, strokeEnds, fixed, limit >>

\* stopDrawing without its `if (isDrawing)`.
StopDrawingUnguarded(type) ==
    /\ isDrawing' = FALSE
    /\ lastPoint' = Null
    /\ strokeEnds' = strokeEnds + 1
    /\ ev' = Event(type, Null, 0, FALSE)
    /\ UNCHANGED << requests, decoding, decodeErrors, canvas, surface, ctx, settings, distRemainder, stamps, path,
                    fixed, events, limit >>

\* onPointerUp and onPointerLeave: both are stopDrawing
StopDrawing(type) ==
    /\ IF isDrawing
       THEN /\ isDrawing' = FALSE
            /\ lastPoint' = Null
            /\ strokeEnds' = strokeEnds + 1
       ELSE UNCHANGED << isDrawing, lastPoint, strokeEnds >>
    /\ ev' = Event(type, Null, 0, FALSE)
    /\ UNCHANGED << requests, decoding, decodeErrors, canvas, surface, ctx, settings, distRemainder, stamps, path,
                    fixed, events, limit >>

\* updateSetting with the mount effect of the Canvas run again on the new
\* settings: the canvas is filled afresh.
UpdateSettingRemounting(key, value) ==
    /\ events < limit
    /\ settings' = [settings EXCEPT ![key] = value]
    /\ surface' = InitialSurface(canvas)
    /\ ctx' = InitialCtx
    /\ fixed' = FALSE
    /\ events' = events + 1
    /\ ev' = [Event("update", Null, 0, FALSE) EXCEPT !.arg = [key |-> key, value |-> value]]
    /\ UNCHANGED << requests, decoding, decodeErrors, canvas, isDrawing, lastPoint, distRemainder,
                    strokeEnds, stamps, path, limit >>

\* App.updateSetting(key, value)
UpdateSetting(key, value) ==
    /\ events < limit
    /\ settings' = [settings EXCEPT ![key] = value]
    /\ fixed' = FALSE
    /\ events' = events + 1
    /\ ev' = [Event("update", Null, 0, FALSE) EXCEPT !.arg = [key |-> key, value |-> value]]
    /\ UNCHANGED << requests, decoding, decodeErrors, canvas, surface, ctx, isDrawing, lastPoint, distRemainder,
                    strokeEnds, stamps, path, limit >>

\* CanvasRef.clear(): fillRect over the whole canvas with the background as
\* fillStyle, under the globalAlpha the context has.
Clear ==
    /\ events < limit
    /\ ctx' = [ctx EXCEPT !.fillStyle = [kind |-> "color", color |-> Background, stop |-> 100]]
    /\ surface' = [p \in DOMAIN surface |-> Paint(surface[p], Background, ctx.globalAlpha)]
    /\ ev' = Event("clear", Null, 0, FALSE)
    /\ events' = events + 1
    /\ UNCHANGED << requests, decoding, decodeErrors, canvas, settings, isDrawing, lastPoint,
                    distRemainder, strokeEnds, stamps, path, fixed, limit >>

\* CanvasRef.loadImage(base64): a new Image is given the data URL as src; its
\* decode runs in the background.
LoadImage(base64) ==
    /\ events < limit
    /\ decoding' = Append(decoding, base64)
    /\ requests' = Append(requests, base64)
    /\ ev' = [Event("loadImage", Null, 0, FALSE) EXCEPT !.arg = [image |-> base64]]
    /\ events' = events + 1
    /\ UNCHANGED << decodeErrors, canvas, surface, ctx, settings, isDrawing, lastPoint,
                    distRemainder, strokeEnds, stamps, path, fixed, limit >>

Without(seq, i) == SubSeq(seq, 1, i - 1) \o SubSeq(seq, i + 1, Len(seq))

\* img.onload of the i-th Image in flight: drawImage(img, 0, 0, width, height),
\* under the globalAlpha the context has.
ImageLoaded(i) ==
    /\ Decodes(decoding[i])
    /\ surface' = [p \in DOMAIN surface |->
                      Paint(surface[p], ImageColor(decoding[i]), ctx.globalAlpha)]
    /\ decoding' = Without(decoding, i)
    /\ ev' = [Event("load", Null, 0, FALSE) EXCEPT !.arg = [image |-> decoding[i]]]
    /\ UNCHANGED << requests, decodeErrors, canvas, ctx, settings, isDrawing, lastPoint,
                    distRemainder, strokeEnds, stamps, path, fixed, events, limit >>

\* The error event of the i-th Image in flight: loadImage sets no onerror, so
\* the event has no listener.
ImageFailed(i) ==
    /\ ~Decodes(decoding[i])
    /\ decoding' = Without(decoding, i)
    /\ ev' = [Event("error", Null, 0, FALSE) EXCEPT !.arg = [image |-> decoding[i]]]
    /\ UNCHANGED << requests, decodeErrors, canvas, surface, ctx, settings, isDrawing, lastPoint,
                    distRemainder, strokeEnds, stamps, path, fixed, events, limit >>

Streams == IF settings.jitter > 0 THEN RandomStreams ELSE { <<0, 0>> }

PointerDown == \E e \in Samples, rs \in Streams :
    InCanvas(canvas, e) /\ StartDrawing(e, rs) /\ UNCHANGED assistants

\* The pointer events of the model move between points at exact distances.
PointerMove == \E e \in Samples, rs \in Streams :
    /\ InCanvas(canvas, e)
    /\ lastPoint # Null => ExactDistance(lastPoint, GetCoordinates(e))
    /\ ContinueDrawing(e, rs)
    /\ UNCHANGED assistants

PointerUp == StopDrawing("up") /\ UNCHANGED assistants

PointerLeave == StopDrawing("leave") /\ UNCHANGED assistants

\* A control reports a change of its value.
ChangeSetting == \E key \in DOMAIN SettingValues : \E value \in SettingValues[key] :
    value # settings[key] /\ UpdateSetting(key, value) /\ UNCHANGED assistants

Next == PointerDown \/ PointerMove \/ PointerUp \/ PointerLeave \/ ChangeSetting

Spec == Init /\ [][Next]_vars

\* The canvas of the end-to-end scenario: a 100 px stroke along its top row.
InitWide == Mounted([width |-> WideWidth, height |-> WideHeight],
                    [DefaultSettings EXCEPT !.spacing = 20], MaxEvents)

SpecWide == InitWide /\ [][Next]_vars

\* Longer strokes with an interpolating tool, jitter off and the settings left
\* alone.
InitStroke == \E s \in Presets :
    /\ s.tool # "PIXEL"
    /\ s.jitter = 0
    /\ Mounted([width |-> CanvasWidth, height |-> CanvasHeight], s, MaxEvents + 1)

NextStroke == PointerDown \/ PointerMove \/ PointerUp

SpecStroke == InitStroke /\ [][NextStroke]_vars

\* The Canvas under a host that also supplies isStylus = true (the App never
\* sets it: no control changes isStylus).
InitStylus == \E s \in Presets, stylus \in BOOLEAN :
    /\ s.tool # "PIXEL" /\ s.jitter = 0 /\ s.spacing = 10
    /\ Mounted([width |-> CanvasWidth, height |-> CanvasHeight],
               [s EXCEPT !.isStylus = stylus], MaxEvents)

SpecStylus == InitStylus /\ [][NextStroke]_vars

\* The Canvas with its host calling clear() and loadImage() between pointer
\* events.
InitHost == \E s \in Presets :
    /\ s.jitter = 0 /\ s.spacing = 10 /\ s.size = 10
    /\ Mounted([width |-> CanvasWidth, height |-> CanvasHeight], s, MaxEvents)

CallClear == Clear /\ UNCHANGED assistants

CallLoadImage == \E base64 \in Payloads : LoadImage(base64) /\ UNCHANGED assistants

DecodeDone == \E i \in 1 .. Len(decoding) : ImageLoaded(i) /\ UNCHANGED assistants

DecodeFailed == \E i \in 1 .. Len(decoding) : ImageFailed(i) /\ UNCHANGED assistants

NextHost ==
    \/ PointerDown \/ PointerMove \/ PointerUp
    \/ CallClear \/ CallLoadImage \/ DecodeDone \/ DecodeFailed

SpecHost == InitHost /\ [][NextHost]_vars

\* updateSetting as a boundary: calls with values inside and outside the
\* ranges of the settings (the sliders of the App give values inside them).
AnyValues ==
    [ size     |-> { 0, 4 },
      spacing  |-> { 0, 20 },
      opacity  |-> { 50, 150 },
      hardness |-> { 0 - 50, 50 },
      jitter   |-> { 50, 200 } ]

CallUpdateSetting == \E key \in DOMAIN AnyValues : \E value \in AnyValues[key] :
    UpdateSetting(key, value) /\ UNCHANGED assistants

InitUpdate == Mounted([width |-> CanvasWidth, height |-> CanvasHeight], DefaultSettings, MaxEvents)

SpecUpdate == InitUpdate /\ [][CallUpdateSetting]_vars

\* Strokes under settings whose size * spacing is below the floor of the step:
\* the least the sliders give (size 1, spacing 0.05), size 4 at spacing 0.1 and
\* the size 0 that updateSetting lets through.
InitFine == \E s \in { [DefaultSettings EXCEPT !.size = 0],
                       [DefaultSettings EXCEPT !.size = 1, !.spacing = 5],
                       [DefaultSettings EXCEPT !.size = 4] } :
    Mounted([width |-> CanvasWidth, height |-> CanvasHeight], s, MaxEvents + 1)

SpecFine == InitFine /\ [][NextStroke]_vars

\* Strokes during which the tool is changed.
InitTool == \E s \in Presets :
    /\ s.jitter = 0 /\ s.hardness = 100 /\ s.size = 4
    /\ Mounted([width |-> CanvasWidth, height |-> CanvasHeight], s, MaxEvents + 1)

ChangeTool == \E value \in SettingValues.tool :
    value # settings.tool /\ UpdateSetting("tool", value) /\ UNCHANGED assistants

NextTool == PointerDown \/ PointerMove \/ PointerUp \/ ChangeTool

SpecTool == InitTool /\ [][NextTool]_vars

-----------------------------------------------------------------------------
(* Vocabulary of the properties *)

LastStamp == stamps[Len(stamps)]

\* The mark lies at the point: the disc is centred on it, up to the jitter
\* offset of at most jitter * size; the pixel cell contains it.
MarkAt(m, pt, s) ==
    IF m.kind = "pixel"
    THEN /\ m.x <= pt.x /\ pt.x < m.x + m.d
         /\ m.y <= pt.y /\ pt.y < m.y + m.d
    ELSE /\ m.kind = "disc"
         /\ Abs(m.x - pt.x) <= s.jitter * s.size
         /\ Abs(m.y - pt.y) <= s.jitter * s.size

\* The length of the pointer path from path[i] to path[j].
RECURSIVE PathLength(_, _)
PathLength(i, j) ==
    IF i >= j THEN 0
    ELSE Distance(path[i].pt, path[i + 1].pt) + PathLength(i + 1, j)

\* path[i..j] runs along the straight segment from path[i] to path[j]: every
\* move is a step along the segment's direction, none backwards or sideways.
StraightRun(i, j) ==
    LET dx == path[j].pt.x - path[i].pt.x
        dy == path[j].pt.y - path[i].pt.y
    IN  \A k \in i .. j - 1 :
           LET mx == path[k + 1].pt.x - path[k].pt.x
               my == path[k + 1].pt.y - path[k].pt.y
           IN  IF dx = 0 /\ dy = 0 THEN mx = 0 /\ my = 0
               ELSE mx * dy - my * dx = 0 /\ mx * dx + my * dy >= 0

\* Every move of the stroke went to a point other than the one before it.
MovesPositive == \A i \in 1 .. Len(path) - 1 : Distance(path[i].pt, path[i + 1].pt) > 0

\* The number of stamps among made[a..b] that put a mark on the surface (a
\* drawStamp call with a NaN centre puts none).
Painted(made, a, b) == Cardinality({ k \in a .. b : made[k].mark.kind # "none" })

\* The squared distance between the centres of two marks.
Gap2(m1, m2) == (m2.x - m1.x) * (m2.x - m1.x) + (m2.y - m1.y) * (m2.y - m1.y)

-----------------------------------------------------------------------------
(* C1 *)

\* A pointerUp has just ended a stroke that saw no pointerMove and no change
\* of settings.
Tap == ev.type = "up" /\ ev.drawing /\ Len(path) = 1 /\ fixed

\* C1: a tap -- pointerDown then pointerUp at the same coordinate, nothing in
\* between -- has made exactly one stamp, at that coordinate: pointerDown made
\* it and pointerUp made none.
C1_TapOneStamp ==
    Tap => /\ Len(stamps) = 1
           /\ ev.made = 0
           /\ stamps[1].pt = path[1].pt
           /\ MarkAt(stamps[1].mark, path[1].pt, settings)

C1_Witness == Tap /\ settings.jitter = 0 /\ Len(stamps) = 1 /\ path[1].pt.x = 150

-----------------------------------------------------------------------------
(* C2 *)

EndToEndSettings == [DefaultSettings EXCEPT !.spacing = 20]

\* pointerDown at (0,0), pointerMove to (100,0), pointerUp, under the
\* scenario's settings.
EndToEndStroke ==
    /\ ev.type = "up" /\ ev.drawing /\ fixed
    /\ settings = EndToEndSettings
    /\ Len(path) = 2
    /\ path[1].pt.x = 0 /\ path[1].pt.y = 0
    /\ path[2].pt.x = 10000 /\ path[2].pt.y = 0

\* C2: the end-to-end stroke has made exactly 51 stamps, the i-th a disc
\* centred at x = 2(i-1) px, y = 0.
C2_EndToEnd51 ==
    EndToEndStroke =>
        /\ Len(stamps) = 51
        /\ \A i \in 1 .. Len(stamps) :
              /\ stamps[i].mark.kind = "disc"
              /\ stamps[i].mark.x = 200 * (i - 1)
              /\ stamps[i].mark.y = 0

-----------------------------------------------------------------------------
(* C3 *)

\* C3: in a stroke along a straight line (each move going on from the last
\* point), with fixed settings, an interpolating tool and no jitter, every two
\* consecutive stamps are exactly step = max(0.5, size * spacing) apart.
C3_UniformSpacing ==
    ( /\ stamps # << >> /\ fixed
      /\ settings.tool # "PIXEL" /\ settings.jitter = 0
      /\ StraightRun(1, Len(path)) /\ MovesPositive )
    => \A i \in 1 .. Len(stamps) - 1 :
          /\ stamps[i].mark.kind = "disc"
          /\ stamps[i + 1].mark.kind = "disc"
          /\ Gap2(stamps[i].mark, stamps[i + 1].mark) = Step(settings) * Step(settings)

-----------------------------------------------------------------------------
(* C4 *)

\* C4: with fixed settings, an interpolating tool and size * spacing >= 0.5,
\* the number of stamps of a stroke (whose moves each cover some distance)
\* differs from floor(L / step) by at most one, L being the length of the
\* pointer path.
C4_StampCount ==
    ( /\ stamps # << >> /\ fixed
      /\ settings.tool # "PIXEL"
      /\ settings.size * settings.spacing >= 50
      /\ MovesPositive )
    => Abs(Len(stamps) - (PathLength(1, Len(path)) \div (settings.size * settings.spacing))) <= 1

-----------------------------------------------------------------------------
(* C5 *)

\* One interpolate call over the whole of path[i..j], from the carry at
\* path[i], on a scratch context (neither the stamps' positions nor the carry
\* depend on what the canvas holds).
WholeSegment(i, j) ==
    Interpolate([surface |-> InitialSurface([width |-> 0, height |-> 0]), ctx |-> InitialCtx],
                path[i].pt, path[j].pt, settings, path[i].carry, <<0, 0>>)

\* C5: when the moves from path[i] to path[j] (two or more) split the straight
\* segment between the two points, they have made as many stamps, within one,
\* as one interpolate call on the whole segment from the same carry makes, and
\* have left the same distanceRemainder.
C5_CarryCorrect ==
    ( fixed /\ settings.tool # "PIXEL" )
    => \A i, j \in 1 .. Len(path) :
          ( i + 2 <= j /\ StraightRun(i, j) )
          => \A whole \in {WholeSegment(i, j)} :
                /\ Abs(Painted(stamps, path[i].n + 1, path[j].n)
                       - Painted(whole.made, 1, Len(whole.made))) <= 1
                /\ path[j].carry = whole.remainder

\* Two moves of positive length, starting from a carry that is neither 0 nor
\* the step, split a segment.
C5_Witness ==
    /\ fixed /\ settings.tool # "PIXEL" /\ Len(path) = 4
    /\ StraightRun(2, 4)
    /\ path[2].carry > 0 /\ path[2].carry < Step(settings)
    /\ Distance(path[2].pt, path[3].pt) > 0
    /\ Distance(path[3].pt, path[4].pt) > 0
    /\ path[4].n - path[2].n >= 3

-----------------------------------------------------------------------------
(* C6 *)

\* C6: in every Idle state lastPoint is none and distanceRemainder is 0 (the
\* state a stroke end is to leave).
C6_IdleStateReset == ~isDrawing => (lastPoint = Null /\ distRemainder = 0)

-----------------------------------------------------------------------------
(* C7 *)

\* C7: a pointerUp or pointerLeave has called onStrokeEnd exactly once if it
\* found a stroke Active and not at all if it found the machine Idle.
C7_NotifyOncePerStroke ==
    ev.type \in {"up", "leave"}
    => strokeEnds = ev.ends + (IF ev.drawing THEN 1 ELSE 0)

\* A pointerLeave arrived in Idle, after a stroke had been completed.
C7_Witness == ev.type = "leave" /\ ~ev.drawing /\ strokeEnds = 1 /\ Len(stamps) > 1

-----------------------------------------------------------------------------
(* C8 *)

\* The last event was a pointerMove, handled while Active with an
\* interpolating tool, to the point lastPoint already held.
ZeroMove ==
    /\ ev.type = "move" /\ ev.drawing /\ ev.pt # Null /\ ev.last # Null
    /\ settings.tool # "PIXEL"
    /\ ev.pt.x = ev.last.x /\ ev.pt.y = ev.last.y

\* C8: a move of distance 0 puts no stamp on the surface and leaves
\* distanceRemainder as it was, whatever the carry.
C8_ZeroMoveNoOp ==
    ZeroMove => /\ Painted(stamps, Len(stamps) - ev.made + 1, Len(stamps)) = 0
                /\ distRemainder = ev.remainder

-----------------------------------------------------------------------------
(* C9 *)

\* The last event was a pointerMove handled while Active with the pixel tool.
PixelMove == ev.type = "move" /\ ev.drawing /\ ev.pt # Null /\ settings.tool = "PIXEL"

\* C9: a pointerMove handled with the pixel tool makes exactly one stamp, the
\* cell of the move's own point, and leaves distanceRemainder as it was.
C9_PixelBypass ==
    PixelMove
    => /\ ev.made = 1
       /\ Len(stamps) = path[Len(path) - 1].n + 1
       /\ LastStamp.pt = ev.pt
       /\ LastStamp.mark.kind = "pixel"
       /\ MarkAt(LastStamp.mark, ev.pt, settings)
       /\ distRemainder = ev.remainder

\* A pixel move across several cells and interpolation steps, with a carry
\* left by an earlier move of the stroke.
C9_Witness ==
    /\ PixelMove /\ ev.remainder > 0
    /\ Distance(ev.last, ev.pt) >= 500

-----------------------------------------------------------------------------
(* C10 *)

\* The last event made one stamp with the pixel tool.
PixelStamped ==
    /\ ev.type \in {"down", "move"} /\ ev.pt # Null /\ ev.made = 1
    /\ settings.tool = "PIXEL"

\* The side of a cell, max(1, floor(size / 2)) px, and the origin of the cell
\* of coordinate v.
CellSide == 100 * (IF settings.size \div 2 >= 1 THEN settings.size \div 2 ELSE 1)

CellOrigin(v) == (v \div CellSide) * CellSide

InCell(p, pt) ==
    /\ CellOrigin(pt.x) <= CentreX(p) /\ CentreX(p) < CellOrigin(pt.x) + CellSide
    /\ CellOrigin(pt.y) <= CentreY(p) /\ CentreY(p) < CellOrigin(pt.y) + CellSide

\* C10: a pixel stamp at (x, y) is the cell of side max(1, floor(size/2)) with
\* origin (floor(x/side)*side, floor(y/side)*side), which contains (x, y); the
\* cell is filled with the active colour at alpha 1 whatever the opacity,
\* jitter and hardness; and the same stamp made again changes no pixel.
C10_PixelSnapIdempotent ==
    PixelStamped
    => /\ LastStamp.mark.kind = "pixel"
       /\ LastStamp.mark.x = CellOrigin(ev.pt.x)
       /\ LastStamp.mark.y = CellOrigin(ev.pt.y)
       /\ LastStamp.mark.d = CellSide
       /\ LastStamp.mark.x <= ev.pt.x /\ ev.pt.x < LastStamp.mark.x + CellSide
       /\ LastStamp.mark.y <= ev.pt.y /\ ev.pt.y < LastStamp.mark.y + CellSide
       /\ ctx.globalAlpha = 100
       /\ \A p \in DOMAIN surface : InCell(p, ev.pt) => surface[p] = Opaque(settings.color)
       /\ DrawStamp([surface |-> surface, ctx |-> ctx], ev.pt, settings, <<0, 0>>, 0).surface
              = surface

\* A pixel stamp off the cell grid, with opacity and hardness at 0.5, over the
\* translucent mark a soft brush had made.
C10_Witness ==
    /\ PixelStamped /\ settings.opacity = 50 /\ settings.hardness = 50
    /\ ev.pt.x # CellOrigin(ev.pt.x)
    /\ Len(stamps) = 2
    /\ stamps[1].mark.kind = "disc" /\ stamps[1].mark.alpha = 50
    /\ \E p \in DOMAIN surface : InCell(p, ev.pt)

-----------------------------------------------------------------------------
(* C11 *)

\* C11: the disc of a standard stamp has radius size * pressure / 2 under
\* isStylus, pressure being that of the stamped point, so that of two stamps
\* the one with more pressure has the larger radius, in the ratio of the
\* pressures; without isStylus the radius is size / 2 whatever the pressure.
C11_PressureRadius ==
    /\ \A k \in 1 .. Len(stamps) :
          stamps[k].mark.kind = "disc"
          => stamps[k].mark.d
                = IF settings.isStylus THEN settings.size * stamps[k].pt.pressure
                  ELSE settings.size * 100
    /\ \A k, l \in 1 .. Len(stamps) :
          ( /\ settings.isStylus
            /\ stamps[k].mark.kind = "disc" /\ stamps[l].mark.kind = "disc"
            /\ stamps[k].pt.pressure < stamps[l].pt.pressure )
          => /\ stamps[k].mark.d < stamps[l].mark.d
             /\ stamps[k].mark.d * stamps[l].pt.pressure
                   = stamps[l].mark.d * stamps[k].pt.pressure

\* A stylus stroke whose stamps were made at the pressures 0.2 and 0.9 and at
\* one between them.
C11_Witness ==
    /\ settings.isStylus
    /\ \E k, l, m \in 1 .. Len(stamps) :
          /\ stamps[k].mark.kind = "disc" /\ stamps[k].pt.pressure = 20
          /\ stamps[l].mark.kind = "disc" /\ stamps[l].pt.pressure = 90
          /\ stamps[m].mark.kind = "disc"
          /\ stamps[m].pt.pressure > 20 /\ stamps[m].pt.pressure < 90

-----------------------------------------------------------------------------
(* C12 *)

\* A pointerDown, or a pointerMove that was not ignored: the handlers that
\* call getCoordinates.
PointTaken == ev.type \in {"down", "move"} /\ ev.pt # Null

\* C12: the canonical point of a pointer event has the event's client
\* coordinates less the canvas's on-screen origin, and the event's pressure, or
\* 0.5 when the event reports pressure 0; it is the point the handler keeps as
\* the last point of the stroke.
C12_PressureDefault ==
    PointTaken
    => /\ ev.pt.x = ev.arg.clientX - RectLeft
       /\ ev.pt.y = ev.arg.clientY - RectTop
       /\ ev.pt.pressure = IF ev.arg.pressure = 0 THEN 50 ELSE ev.arg.pressure
       /\ path[Len(path)].pt = ev.pt
       /\ ~ev.threw => lastPoint = ev.pt

\* A pointer event that reported pressure 0, at a point off the canvas origin.
C12_Witness ==
    /\ PointTaken /\ ev.arg.pressure = 0 /\ ev.pt.pressure = 50
    /\ ev.arg.clientX = RectLeft /\ ev.pt.x = 0
    /\ ev.type = "move" /\ ev.last.pressure = 20

-----------------------------------------------------------------------------
(* C13 *)

\* C13: when the decode started by loadImage completes, every pixel of the
\* surface shows the imported image, whatever was painted before the call or
\* between the call and the completion.
C13_ImportOverwrites ==
    ev.type = "load"
    => \A p \in DOMAIN surface : surface[p] = Opaque(ImageColor(ev.arg.image))

-----------------------------------------------------------------------------
(* C14 *)

\* C14: when the payload of loadImage fails to decode, the host is given an
\* ImageDecodeError and the surface is left as it was.
C14_DecodeFailureSignalled ==
    [][ ( ev'.type = "error" /\ Len(decoding') < Len(decoding) )
        => ( decodeErrors' > decodeErrors /\ surface' = surface ) ]_vars

-----------------------------------------------------------------------------
(* C16 *)

\* C16: right after clear() the surface is the surface at creation, every
\* pixel the background, whatever stamps, imports and clears came before.
C16_ClearResets ==
    ev.type = "clear" => surface = InitialSurface(canvas)

-----------------------------------------------------------------------------
(* C15 *)

ValidSettings(s) ==
    /\ s.size > 0 /\ s.spacing > 0
    /\ 0 <= s.opacity /\ s.opacity <= 100
    /\ 0 <= s.hardness /\ s.hardness <= 100
    /\ 0 <= s.jitter /\ s.jitter <= 100

\* C15: whatever updateSetting calls were made, the settings the Canvas is
\* given have size > 0, spacing > 0, and opacity, hardness and jitter in [0, 1]
\* (an update with a value outside these was refused).
C15_InvalidSettingsRejected == ValidSettings(settings)

-----------------------------------------------------------------------------
(* C17 *)

\* The stamp st is one drawStamp makes under the settings s: the pixel cell or
\* the disc of s, in its colour, alpha, hardness and size.
StampedWith(st, s) ==
    IF s.tool = "PIXEL"
    THEN /\ st.mark.kind \in {"pixel", "none"}
         /\ st.mark.d = 100 * Max(1, s.size \div 2)
         /\ st.mark.color = s.color
         /\ st.mark.alpha = 100
    ELSE /\ st.mark.kind \in {"disc", "none"}
         /\ st.mark.d = s.size * (IF s.isStylus THEN st.pt.pressure ELSE 100)
         /\ st.mark.color = IF s.tool = "ERASER" THEN Background ELSE s.color
         /\ st.mark.alpha = s.opacity
         /\ st.mark.hardness = s.hardness
         /\ st.mark.kind = "disc" => MarkAt(st.mark, st.pt, s)

\* C17: a change of the settings leaves the surface and the stamps made so far
\* as they were, also in the middle of a stroke; every stamp a later pointer
\* event makes is made with the settings in force at that event.
C17_SettingsNotRetroactive ==
    [][ /\ ( ev'.type = "update" /\ events' # events )
           => ( surface' = surface /\ stamps' = stamps /\ settings' # settings )
        /\ ( ev'.type = "down" /\ events' # events )
           => \A k \in 1 .. Len(stamps') : StampedWith(stamps'[k], settings)
        /\ ( ev'.type = "move" /\ events' # events )
           => /\ SubSeq(stamps', 1, Len(stamps)) = stamps
              /\ \A k \in Len(stamps) + 1 .. Len(stamps') : StampedWith(stamps'[k], settings)
      ]_vars

\* A move of a stroke whose colour was changed after the pointerDown: its
\* stamps have the new colour, the first stamp of the stroke the old one.
C17_Witness ==
    /\ ev.type = "move" /\ ev.made > 0 /\ ~fixed /\ isDrawing
    /\ Len(stamps) > ev.made
    /\ stamps[1].mark.color # settings.color
    /\ LastStamp.mark.color = settings.color
    /\ \E p \in DOMAIN surface : surface[p] = Opaque(stamps[1].mark.color)

-----------------------------------------------------------------------------
(* C18 *)

\* A pointerMove that interpolated.
Interpolated == ev.type = "move" /\ ev.pt # Null /\ settings.tool # "PIXEL"

-----------------------------------------------------------------------------
(* C19 *)

\* The first of the walk distances carry, carry + step, carry + 2 * step, ...
\* that exceeds dist.
FirstBeyond(carry, step, dist) ==
    CHOOSE t \in { carry + k * step : k \in 0 .. dist \div step + 1 } :
        /\ t > dist
        /\ \A k \in 0 .. dist \div step + 1 : carry + k * step > dist => t <= carry + k * step

\* C19: distanceRemainder is never negative; after a pointerMove handled with
\* a tool other than the pixel tool it is the first walk distance beyond dist,
\* less dist, and it lies in [0, step] when the settings have not changed
\* since the pointerDown.
C19_CarryInvariant ==
    /\ distRemainder >= 0
    /\ Interpolated
       => /\ distRemainder
                = FirstBeyond(ev.remainder, Step(settings), Distance(ev.last, ev.pt))
                  - Distance(ev.last, ev.pt)
          /\ fixed => distRemainder <= Step(settings)

-----------------------------------------------------------------------------
(* C20 *)

\* The alpha a stamp is to be painted with under the settings s.
StampAlpha(s) == IF s.tool = "PIXEL" THEN 100 ELSE s.opacity

\* C20: every stamp a pointer event makes is painted with alpha
\* settings.opacity, or 1 for the pixel tool, and leaves that alpha on the
\* context, whatever the stamps before it were painted with.
C20_AlphaNoLeak ==
    ( PointTaken /\ ev.made > 0 )
    => /\ \A k \in Len(stamps) - ev.made + 1 .. Len(stamps) :
             stamps[k].mark.alpha = StampAlpha(settings)
       /\ ctx.globalAlpha = StampAlpha(settings)

\* A pixel stamp right after a brush stamp of the same stroke made at opacity
\* 0.5.
C20_Witness ==
    /\ PointTaken /\ ev.made = 1 /\ settings.tool = "PIXEL" /\ settings.opacity = 50
    /\ Len(stamps) >= 2
    /\ stamps[Len(stamps) - 1].mark.kind = "disc"
    /\ stamps[Len(stamps) - 1].mark.alpha = 50
    /\ LastStamp.mark.kind = "pixel" /\ LastStamp.mark.alpha = 100
    /\ ev.last # Null /\ ctx.globalAlpha = 100

-----------------------------------------------------------------------------
(* C21 *)

\* The mark drawStamp makes at pt under the settings s with the tool replaced.
MarkOfTool(pt, s, tool) == StampMark(pt, [s EXCEPT !.tool = tool], <<0, 0>>, 0)

\* The pixels whose centre lies in the disc of the mark m.
Disc(m) == { p \in DOMAIN surface : Dist4(p, m.x, m.y) <= m.d * m.d }

\* C21: the stamp the eraser makes at a point has the centre, radius, alpha and
\* hardness of the stamp the pencil makes there under the same settings, and
\* the background as its colour where the pencil has settings.color; a hard
\* eraser stamp at opacity 1 leaves every pixel of its disc the background.
C21_EraserPaintsBackground ==
    ( stamps # << >> /\ fixed /\ settings.tool # "PIXEL" /\ settings.jitter = 0 )
    => /\ \A k \in 1 .. Len(stamps) :
            LET eraser == MarkOfTool(stamps[k].pt, settings, "ERASER")
                pencil == MarkOfTool(stamps[k].pt, settings, "PENCIL")
            IN  /\ eraser.x = pencil.x /\ eraser.y = pencil.y /\ eraser.d = pencil.d
                /\ eraser.alpha = pencil.alpha
                /\ eraser.hardness = pencil.hardness /\ eraser.gradient = pencil.gradient
                /\ eraser.kind = pencil.kind
                /\ eraser.color = Background /\ pencil.color = settings.color
                /\ stamps[k].mark = IF settings.tool = "ERASER" THEN eraser ELSE pencil
       /\ ( /\ settings.tool = "ERASER" /\ settings.hardness = 100 /\ settings.opacity = 100
            /\ PointTaken /\ ev.made > 0 /\ LastStamp.mark.kind = "disc" )
          => \A p \in Disc(LastStamp.mark) : surface[p] = Opaque(Background)

\* A hard eraser stamp at opacity 1 that took away part of the ink on the
\* canvas: pixels of its disc are the background again, ink is left outside.
C21_Witness ==
    /\ settings.tool = "ERASER" /\ settings.hardness = 100 /\ settings.opacity = 100
    /\ fixed /\ PointTaken /\ ev.made > 0 /\ LastStamp.mark.kind = "disc"
    /\ Disc(LastStamp.mark) # {}
    /\ \E p \in DOMAIN surface : surface[p] = Opaque(Ink)

-----------------------------------------------------------------------------
(* C22 *)

\* The Canvas with and without jitter, under a host that may set isStylus.
InitJitter == \E jitter \in {0, 50}, stylus \in BOOLEAN :
    Mounted([width |-> CanvasWidth, height |-> CanvasHeight],
            [DefaultSettings EXCEPT !.jitter = jitter, !.isStylus = stylus], MaxEvents)

SpecJitter == InitJitter /\ [][NextStroke]_vars

\* The results Math.random() has in the model.
RandomResults == { RandomValues[i] : i \in DOMAIN RandomValues }

\* (random - 0.5) * jitter * size * 2 with the brush size setting as size.
SettingOffset(r) == JitterOffset(r, settings.jitter, settings.size * 100)

\* C22: with jitter = 0 a standard stamp is centred on the requested position;
\* with jitter > 0 its x and y offsets are each (random - 0.5) * jitter * size * 2
\* for a random value, size being the brush size setting whatever the
\* pressure, so each lies within jitter * size of zero.
C22_JitterOffset ==
    ( stamps # << >> /\ fixed /\ settings.tool # "PIXEL" )
    => \A k \in 1 .. Len(stamps) :
           LET pt == stamps[k].pt
               m  == stamps[k].mark
           IN  m.kind = "disc"
               => /\ settings.jitter = 0 => ( m.x = pt.x /\ m.y = pt.y )
                  /\ settings.jitter > 0
                     => /\ \E r \in RandomResults : m.x - pt.x = SettingOffset(r)
                        /\ \E r \in RandomResults : m.y - pt.y = SettingOffset(r)
                        /\ Abs(m.x - pt.x) <= settings.jitter * settings.size
                        /\ Abs(m.y - pt.y) <= settings.jitter * settings.size

-----------------------------------------------------------------------------
(* C23 *)

\* Soft and hard brushes of several sizes on the small canvas, and the soft
\* size 20 brush on the wide one too (where its stamp ends inside the canvas).
SoftPresets ==
    { [DefaultSettings EXCEPT !.hardness = 50, !.size = 20],
      [DefaultSettings EXCEPT !.hardness = 50, !.opacity = 50],
      [DefaultSettings EXCEPT !.hardness = 0],
      [DefaultSettings EXCEPT !.size = 20],
      [DefaultSettings EXCEPT !.size = 4, !.opacity = 50] }

InitSoft ==
    \/ \E s \in SoftPresets :
           Mounted([width |-> CanvasWidth, height |-> CanvasHeight], s, MaxEvents)
    \/ \E s \in SoftPresets :
           /\ s.size = 20 /\ s.hardness < 100
           /\ Mounted([width |-> WideWidth, height |-> WideHeight], s, MaxEvents)

SpecSoft == InitSoft /\ [][NextStroke]_vars

\* One stamp on the untouched background.
FirstStamp == events = 1 /\ Len(stamps) = 1 /\ stamps[1].mark.kind = "disc"

\* The alpha, in hundredths, with which the pixel was painted over the
\* background (the brush colour is not the background colour).
AppliedAlpha(pixel) ==
    IF pixel = Opaque(Background) THEN 0
    ELSE IF Len(pixel) = 1 THEN 100
    ELSE pixel[Len(pixel)].a

\* C23: a standard stamp of radius r with hardness < 1 paints with alpha
\* opacity out to hardness * r, with an alpha falling linearly from there to
\* zero at r, and nothing outside r; with hardness = 1 it paints with alpha
\* opacity over the whole disc and nothing outside.  With hardness 0.5 and
\* size 20 (no stylus) that is full alpha up to 5 px and none from 10 px on.
C23_HardnessFalloff ==
    FirstStamp
    => LET m == stamps[1].mark
           d == m.d
           h == settings.hardness
           core == h * settings.size    \* twice hardness * r
       IN  /\ d = settings.size * 100
           /\ \A p \in DOMAIN surface :
                  LET d4 == Dist4(p, m.x, m.y)
                      a  == AppliedAlpha(surface[p])
                  IN  /\ surface[p] \in { Opaque(Background), Opaque(settings.color),
                                          << Opaque(Background)[1], [c |-> settings.color, a |-> a] >> }
                      /\ d4 > d * d => a = 0
                      /\ ( h = 100 /\ d4 <= d * d ) => a = settings.opacity
                      /\ ( h < 100 /\ d4 <= core * core ) => a = settings.opacity
                      /\ ( h < 100 /\ d4 >= d * d ) => a = 0
                      /\ ( h < 100 /\ d4 > core * core /\ d4 < d * d )
                         => /\ a < settings.opacity
                            /\ Abs(a * d * (100 - h) - settings.opacity * 100 * (d - Sqrt(d4)))
                                   <= 2 * d * (100 - h)
                      /\ ( h = 50 /\ settings.size = 20 /\ d4 <= 1000 * 1000 ) => a = settings.opacity
                      /\ ( h = 50 /\ settings.size = 20 /\ d4 >= 2000 * 2000 ) => a = 0

\* A soft stamp of size 20 and hardness 0.5 with pixels in its core, on its
\* fading ring and outside it.
C23_Witness ==
    /\ FirstStamp /\ settings.hardness = 50 /\ settings.size = 20
    /\ \E p, q, o \in DOMAIN surface :
           /\ Dist4(p, stamps[1].mark.x, stamps[1].mark.y) <= 1000 * 1000
           /\ AppliedAlpha(surface[p]) = 100
           /\ Dist4(q, stamps[1].mark.x, stamps[1].mark.y) > 1000 * 1000
           /\ AppliedAlpha(surface[q]) \in 1 .. 99
           /\ Dist4(o, stamps[1].mark.x, stamps[1].mark.y) > 2000 * 2000
           /\ surface[o] = Opaque(Background)

-----------------------------------------------------------------------------
(* C25 *)

\* The stamps the moves path[i], path[i+1], ... make when the stroke stands at
\* `last` with the carry `carry`: what interpolate yields from the points of
\* the path and the settings alone.
RECURSIVE Replay(_, _, _)
Replay(i, last, carry) ==
    IF i > Len(path) THEN << >>
    ELSE CHOOSE all \in
             { res.made \o Replay(i + 1, IF res.threw THEN last ELSE path[i].pt, res.remainder) :
                 res \in { Interpolate([surface |-> InitialSurface([width |-> 0, height |-> 0]),
                                        ctx |-> InitialCtx],
                                       last, path[i].pt, settings, carry, <<0, 0>>) } } : TRUE

\* The stamps of a stroke that starts at path[1] with no carry.
FreshStroke ==
    << [pt |-> path[1].pt, mark |-> StampMark(path[1].pt, settings, <<0, 0>>, 0)] >>
    \o Replay(2, path[1].pt, 0)

\* C25: with jitter 0 the stamps of the current stroke are those its own
\* points and the settings give when the stroke starts at its first point
\* with distanceRemainder = 0, whatever the strokes before it left behind;
\* pointerDown leaves distanceRemainder = 0 and lastPoint = the start point.
C25_StrokesIndependent ==
    /\ ( fixed /\ settings.tool # "PIXEL" /\ settings.jitter = 0 /\ path # << >> )
       => stamps = FreshStroke
    /\ ( ev.type = "down" /\ ev.pt # Null )
       => ( distRemainder = 0 /\ lastPoint = ev.pt /\ path[1].pt = ev.pt )

\* A pointerDown that found the distanceRemainder an earlier stroke left.
C25_Witness ==
    /\ ev.type = "down" /\ ev.pt # Null /\ ev.ends >= 1
    /\ ev.remainder > 0 /\ ~ev.drawing
    /\ distRemainder = 0 /\ Len(stamps) = 1 /\ stamps[1].mark.kind = "disc"

-----------------------------------------------------------------------------
(* C26 *)

\* C26: a pointerMove received while Idle and any pointerUp or pointerLeave
\* paint no stamp and leave the surface, and the lastPoint and
\* distanceRemainder of an Idle machine, unchanged; every pointerMove received
\* while a stroke is Active is processed: it reaches the drawing code with its
\* point.
C26_OutsideStrokeNoPaint ==
    [][ /\ ( ev'.type = "move" /\ ~isDrawing )
           => /\ surface' = surface /\ stamps' = stamps /\ ev'.made = 0
              /\ lastPoint' = lastPoint /\ distRemainder' = distRemainder
              /\ ~isDrawing'
        /\ ev'.type \in {"up", "leave"}
           => /\ surface' = surface /\ stamps' = stamps /\ ev'.made = 0
              /\ distRemainder' = distRemainder
              /\ ~isDrawing => ( lastPoint' = lastPoint /\ ~isDrawing' )
        /\ ( ev'.type = "move" /\ isDrawing )
           => /\ ev'.pt # Null /\ ev'.pt = GetCoordinates(ev'.arg)
              /\ path' = Append(path, path'[Len(path')])
              /\ path'[Len(path')].pt = ev'.pt
      ]_vars

\* A pointerMove ignored by an Idle machine that an earlier stroke left with a
\* distanceRemainder.
C26_Witness ==
    /\ ev.type = "move" /\ ev.pt = Null /\ ~ev.drawing /\ ~isDrawing
    /\ strokeEnds >= 1 /\ stamps # << >> /\ distRemainder > 0 /\ lastPoint = Null

-----------------------------------------------------------------------------
(* C27 *)

\* C27: a pointerDown received while a stroke is Active starts no second
\* stroke: it paints no stamp and changes neither lastPoint nor
\* distanceRemainder.
C27_SingleActiveStroke ==
    [][ ( ev'.type = "down" /\ isDrawing )
        => /\ surface' = surface /\ ev'.made = 0
           /\ lastPoint' = lastPoint /\ distRemainder' = distRemainder
      ]_vars

-----------------------------------------------------------------------------
(* C28 *)

\* Every pixel of the surface has the colour of the image on top.
Shows(surf, base64) ==
    \A p \in DOMAIN surf : surf[p][Len(surf[p])].c = ImageColor(base64)

\* C28: when the decode that completes is the last one in flight and every
\* image requested decodes, the surface then shows the image requested last,
\* in whatever order the decodes finished; and a decode that completes right
\* after a clear(), for a loadImage called before it, leaves the cleared
\* surface as it is.
C28_ImportsInRequestOrder ==
    [][ ev'.type = "load"
        => /\ ( decoding' = << >> /\ \A k \in 1 .. Len(requests) : Decodes(requests[k]) )
              => Shows(surface', requests[Len(requests)])
           /\ ev.type = "clear" => surface' = surface
      ]_vars

-----------------------------------------------------------------------------
(* The AICenter *)

\* The AI operations the model lets be in flight at once.
MaxInFlight == 2

\* The variables of the Canvas and of the tool bar.
drawing == << canvas, surface, ctx, settings, isDrawing, lastPoint, distRemainder,
             strokeEnds, stamps, path, fixed, ev, decoding, decodeErrors, events,
             limit, requests >>

Tabs == { "chat", "generate", "edit", "video" }

\* What the textarea may hold: nothing, or a prompt.
Inputs == { "", "Add a red balloon" }

\* onClick={() => setActiveTab(t)}: the tabs are never disabled.
SetActiveTab(t) ==
    /\ ai' = [ai EXCEPT !.activeTab = t]
    /\ UNCHANGED << drawing, live >>

\* onChange={(e) => setInput(e.target.value)}
SetInput(text) ==
    /\ ai' = [ai EXCEPT !.input = text]
    /\ UNCHANGED << drawing, live >>

\* A handler up to its first await: setIsLoading(true), then the request.
Begin(kind) ==
    /\ Len(ai.inFlight) < MaxInFlight
    /\ ai' = [ai EXCEPT !.isLoading = TRUE, !.inFlight = Append(@, kind)]
    /\ UNCHANGED << drawing, live >>

\* handleSend: returns at once on a blank input, and empties the input.
HandleSend ==
    /\ ai.input # ""
    /\ Len(ai.inFlight) < MaxInFlight
    /\ ai' = [ai EXCEPT !.isLoading = TRUE, !.input = "", !.inFlight = Append(@, "send")]
    /\ UNCHANGED << drawing, live >>

HandleGenerateImage == Begin("generate")

HandleEditImage == Begin("edit")

HandleAnalyze == Begin("analyze")

HandleVideo == Begin("video")

\* The EXECUTE button: disabled={isLoading}; its handler goes by the tab.
Execute ==
    /\ ~ai.isLoading
    /\ CASE ai.activeTab = "chat" -> HandleSend
         [] ai.activeTab = "generate" -> HandleGenerateImage
         [] ai.activeTab = "edit" -> HandleEditImage
         [] OTHER -> HandleVideo

\* The "Just Analyze/Critique" button of the edit tab: it has no `disabled`.
AnalyzeButton == ai.activeTab = "edit" /\ HandleAnalyze

\* The rest of a handler, from the await that settles to the end of its
\* finally: setIsLoading(false).  outcome is "image" when the request of
\* handleGenerateImage or handleEditImage yields an image, which goes to
\* onApplyImage (the loadImage of the Canvas); "done" for any other result;
\* "threw" when the request rejects.
Settle(i, outcome, base64) ==
    /\ ai' = [ai EXCEPT !.isLoading = FALSE, !.inFlight = Without(@, i)]
    /\ IF outcome = "image"
       THEN ai.inFlight[i] \in { "generate", "edit" } /\ LoadImage(base64)
       ELSE UNCHANGED drawing
    /\ UNCHANGED live

SwitchTab == \E t \in Tabs : t # ai.activeTab /\ SetActiveTab(t)

TypeInput == \E text \in Inputs : text # ai.input /\ SetInput(text)

OperationSettles ==
    \E i \in 1 .. Len(ai.inFlight) : \E outcome \in { "image", "done", "threw" } :
    \E base64 \in Payloads :
        /\ outcome # "image" => base64 = "imageA"
        /\ Settle(i, outcome, base64)

InitAI == Mounted([width |-> CanvasWidth, height |-> CanvasHeight], DefaultSettings, MaxEvents)

NextAI ==
    \/ SwitchTab \/ TypeInput \/ Execute \/ AnalyzeButton \/ OperationSettles
    \/ DecodeDone \/ DecodeFailed

SpecAI == InitAI /\ [][NextAI]_vars

-----------------------------------------------------------------------------
(* C29 *)

\* C29: isLoading is true exactly while an AICenter operation is in flight,
\* and no operation is started while isLoading is true, so at most one is in
\* flight.
C29_LoadingTracksInFlight ==
    /\ ai.isLoading <=> ai.inFlight # << >>
    /\ Len(ai.inFlight) <= 1

-----------------------------------------------------------------------------
(* The LiveAssistant *)
(*                                                                         *)
(* live.inits holds one record per run of init(): pc is "mic" while the run *)
(* awaits getUserMedia, "done" or "failed" after; stream, session and       *)
(* sending are the state of the MediaStream, of the live session and of the *)
(* script processor the run created.  A ref holds the number of the run     *)
(* whose object it points to, 0 for null.  Times are in audio frames.       *)

\* The times the assistant may be opened in a run of the model.
MaxOpens == 2

\* The audio chunks a run of the model delivers.
MaxChunks == 3

\* The last value of the audio clock in a run of the model.
MaxTime == 3

\* The frames of a chunk: a chunk of no frames does not decode (createBuffer
\* throws on a length of 0).
ChunkFrames == { 0, 1, 2 }

\* A start time that ignores what is already scheduled.
StartTimeNow(now, nextStartTime) == now

\* const start = Math.max(now, nextStartTimeRef.current);
StartTime(now, nextStartTime) == Max(now, nextStartTime)

\* The effect of [isOpen] when isOpen has become true: init() up to its first
\* await, the getUserMedia call.
OpenEffect ==
    /\ ~live.isOpen
    /\ Len(live.inits) < MaxOpens
    /\ live.pending = << >>
    /\ live' = [live EXCEPT !.isOpen = TRUE,
                            !.status = "connecting",
                            !.inits = Append(@, [ pc |-> "mic", stream |-> "none",
                                                  session |-> "none", sending |-> FALSE ]),
                            !.audioContextRef = Len(live.inits) + 1,
                            !.nextStartTime = 0,
                            !.now = 0,
                            !.scheduled = << >>]
    /\ UNCHANGED << drawing, ai >>

\* The effect of [isOpen] when isOpen has become false: the refs that are set
\* are closed or stopped, and nulled.
CloseEffect ==
    /\ live.isOpen
    /\ live.pending = << >>
    /\ live' = [live EXCEPT
                  !.isOpen = FALSE,
                  !.inits = [ i \in DOMAIN live.inits |->
                                [ live.inits[i] EXCEPT
                                    !.session = IF i = live.liveSessionRef THEN "closed" ELSE @,
                                    !.stream = IF i = live.streamRef THEN "stopped" ELSE @ ] ],
                  !.liveSessionRef = 0,
                  !.streamRef = 0,
                  !.audioContextRef = 0]
    /\ UNCHANGED << drawing, ai >>

\* getUserMedia resolves in run i of init(): the rest of init() runs without
\* waiting for another task (connectLiveSession awaits nothing), whether
\* or not the assistant is still open.
GotUserMedia(i) ==
    /\ live.inits[i].pc = "mic"
    /\ live' = [live EXCEPT
                  !.inits[i] = [ pc |-> "done", stream |-> "running",
                                 session |-> "open", sending |-> TRUE ],
                  !.streamRef = i,
                  !.liveSessionRef = i,
                  !.status = "active"]
    /\ UNCHANGED << drawing, ai >>

\* getUserMedia rejects in run i of init(): the catch sets the status.
UserMediaRejected(i) ==
    /\ live.inits[i].pc = "mic"
    /\ live' = [live EXCEPT !.inits[i].pc = "failed", !.status = "error"]
    /\ UNCHANGED << drawing, ai >>

\* The session of run i delivers a chunk to its onAudioData callback: the
\* callback up to its await (decodeAudioData runs to its end at once).
OnAudioData(i, frames) ==
    /\ live.inits[i].session = "open"
    /\ live.chunks < MaxChunks
    /\ live' = [live EXCEPT
                  !.chunks = @ + 1,
                  !.pending = IF live.audioContextRef = 0 \/ frames = 0
                              THEN @
                              ELSE Append(@, [ chunk |-> live.chunks + 1,
                                               duration |-> frames, by |-> i ])]
    /\ UNCHANGED << drawing, ai >>

\* The callback after its await, for the chunk decoded first: the source is
\* connected to the output node of its run (which throws when the current
\* context is that of another run) and scheduled.
AfterDecode ==
    /\ live.pending # << >>
    /\ LET head  == Head(live.pending)
           start == StartTime(live.now, live.nextStartTime)
       IN  live' = IF head.by # live.audioContextRef
                   THEN [live EXCEPT !.pending = Tail(@)]
                   ELSE [live EXCEPT
                           !.pending = Tail(@),
                           !.scheduled = Append(@, [ chunk |-> head.chunk, at |-> live.now,
                                                     start |-> start,
                                                     end |-> start + head.duration ]),
                           !.nextStartTime = start + head.duration]
    /\ UNCHANGED << drawing, ai >>

\* audioContextRef.current.currentTime advances.
ClockAdvances ==
    /\ live.audioContextRef # 0
    /\ live.now < MaxTime
    /\ live' = [live EXCEPT !.now = @ + 1]
    /\ UNCHANGED << drawing, ai >>

OpenAssistant == OpenEffect

CloseAssistant == CloseEffect

MicrophoneGranted == \E i \in DOMAIN live.inits : GotUserMedia(i)

MicrophoneDenied == \E i \in DOMAIN live.inits : UserMediaRejected(i)

AudioArrives == \E i \in DOMAIN live.inits : \E frames \in ChunkFrames : OnAudioData(i, frames)

InitLive == Mounted([width |-> CanvasWidth, height |-> CanvasHeight], DefaultSettings, MaxEvents)

NextLive ==
    \/ OpenAssistant \/ CloseAssistant \/ MicrophoneGranted \/ MicrophoneDenied
    \/ AudioArrives \/ AfterDecode \/ ClockAdvances

SpecLive == InitLive /\ [][NextLive]_vars

-----------------------------------------------------------------------------
(* C24 *)

\* The playback schedule of the current audio context is gapless and free of
\* overlap: every chunk starts at the later of the time it was scheduled at
\* and the end of the chunk scheduled before it, chunks are scheduled in
\* arrival order, and nextStartTime is the end of the last one.
Gapless(l) ==
    /\ \A k \in 1 .. Len(l.scheduled) :
           /\ l.scheduled[k].start
                 = Max(l.scheduled[k].at, IF k = 1 THEN 0 ELSE l.scheduled[k - 1].end)
           /\ l.scheduled[k].end >= l.scheduled[k].start
    /\ \A j, k \in 1 .. Len(l.scheduled) :
           j < k => /\ l.scheduled[j].end <= l.scheduled[k].start
                    /\ l.scheduled[j].chunk < l.scheduled[k].chunk
    /\ l.nextStartTime = IF l.scheduled = << >> THEN 0
                          ELSE l.scheduled[Len(l.scheduled)].end

\* C24: whatever chunks the live session delivers, each is scheduled at
\* max(now, end of the chunk scheduled before), so the scheduled intervals do
\* not overlap and follow the order of arrival, and nextStartTime does not
\* decrease while an audio context plays.
C24_GaplessPlayback ==
    [][ /\ Gapless(live')
        /\ live'.audioContextRef = live.audioContextRef
           => live'.nextStartTime >= live.nextStartTime
        /\ Len(live'.scheduled) > Len(live.scheduled)
           => live'.scheduled[Len(live'.scheduled)].start
                = Max(live.now, live.nextStartTime)
      ]_vars

\* Three chunks scheduled: one queued behind the chunk before it, one started
\* at once after a silence.
C24_Witness ==
    /\ Len(live.scheduled) = 3
    /\ live.scheduled[2].start > live.scheduled[2].at
    /\ live.scheduled[3].start > live.scheduled[2].end
    /\ live.scheduled[3].start = live.scheduled[3].at

-----------------------------------------------------------------------------
(* C30 *)

\* C30: once isOpen is false and no init() is still running, no live session
\* is open, no microphone stream is running and no processor sends audio to
\* an open session.
C30_CleanupOnClose ==
    ( ~live.isOpen /\ \A i \in DOMAIN live.inits : live.inits[i].pc # "mic" )
    => \A i \in DOMAIN live.inits :
           /\ live.inits[i].session # "open"
           /\ live.inits[i].stream # "running"
           /\ ~( live.inits[i].sending /\ live.inits[i].session = "open" )

====
